---------------------------- MODULE Spec2Model ----------------------------
(***************************************************************************)
(* Trochoid viewer: CurveMath (get_point, get_auxiliary_data, get_max_t)   *)
(* and the MainWindow viewer handlers of src/unnamed/part_000 (the same    *)
(* code, with other label texts, is src/trochoid_viewer.py).               *)
(*                                                                         *)
(* Numbers.  The code computes in IEEE doubles with numpy's sin and cos.   *)
(* The model computes the same expressions over the reals, exactly: a      *)
(* number is a finite sum of terms                                         *)
(*        c * pi^p * cos(j*pi/GridN) * F(b/RadDen)                         *)
(* with c a non-zero rational <<num, den>>, F(x) = cos x or sin x, and     *)
(* GridN a power of two, for which 1, cos(pi/GridN), ...,                  *)
(* cos((GridN/2-1)*pi/GridN) are linearly independent over the rationals.  *)
(* A number is the set of its terms, one per key (p, j, f, b), so equal    *)
(* sets are equal reals.  Rounding of the doubles is not modelled.         *)
(*                                                                         *)
(* Angles (the parameter t and every argument of sin and cos) are          *)
(* [pi |-> a, rd |-> b], standing for a*pi/GridN + b/RadDen radians.       *)
(***************************************************************************)
EXTENDS Integers, Sequences, FiniteSets, TLC

VARIABLES
    curve_type,     \* self.curve_type
    radius,         \* self.radius
    k_val,          \* self.k_val
    d_val,          \* self.d_val
    speed,          \* self.speed
    t_current,      \* self.t_current, an angle
    is_playing,     \* self.is_playing
    show_aux,       \* self.show_aux
    timer_active,   \* self.timer.isActive()
    btn_play,       \* self.btn_play.text(): "play" or "pause"
    plot,           \* what update_plot drew last
    res_point,      \* result of the last CurveMath.get_point call
    res_aux,        \* result of the last CurveMath.get_auxiliary_data call
    res_max_t,      \* result of the last CurveMath.get_max_t call
    first_max_t,    \* result of the first CurveMath.get_max_t call
    res_stats,      \* result of the last CurveMath.calculate_stats call
    n_edits         \* slider and checkbox edits made so far

vars == <<curve_type, radius, k_val, d_val, speed, t_current, is_playing,
          show_aux, timer_active, btn_play, plot,
          res_point, res_aux, res_max_t, first_max_t, res_stats, n_edits>>

viewer_fields == <<curve_type, radius, k_val, d_val, t_current, is_playing>>

---------------------------------------------------------------------------
(* Bounds of the model *)

\* GridN = 2^GridExp: parameters of the pure functions are multiples of pi/GridN
GridExp == 2
\* largest K of the direct calls of the CurveMath functions
MaxK == 4
\* slider and checkbox edits the user makes in one session; play, pause,
\* reset, curve changes and timer ticks are not limited
MaxEdits == 1

GridN == 2 ^ GridExp

\* dt = 0.01 * (speed / 5.0) = speed / 500: t_current advances in 1/500 rad
RadDen == 500

---------------------------------------------------------------------------
(* Rationals <<num, den>>, den > 0, in lowest terms *)

Abs(n) == IF n < 0 THEN -n ELSE n

RECURSIVE Gcd(_, _)
Gcd(a, b) == IF b = 0 THEN a ELSE Gcd(b, a % b)

Rat(n, d) ==
    LET g == Gcd(Abs(n), Abs(d))
        s == IF d < 0 THEN -1 ELSE 1
    IN  <<(s * n) \div g, (s * d) \div g>>

RatInt(n) == <<n, 1>>
RatAdd(a, b) == Rat(a[1] * b[2] + b[1] * a[2], a[2] * b[2])
RatNeg(a) == <<-a[1], a[2]>>
RatSub(a, b) == RatAdd(a, RatNeg(b))
RatMul(a, b) == Rat(a[1] * b[1], a[2] * b[2])
\* Python's a / b on a zero divisor raises ZeroDivisionError: callers test
\* the divisor first
RatDiv(a, b) == Rat(a[1] * b[2], a[2] * b[1])
RatIsZero(a) == a[1] = 0

---------------------------------------------------------------------------
(* Reals: sets of terms *)

Key(x) == <<x.p, x.j, x.f, x.b>>

\* cos(n*pi/GridN) as <<sign, j>>: sign * cos(j*pi/GridN), 0 <= j < GridN/2
CycCos(n) ==
    LET m  == n % (2 * GridN)
        m2 == IF m > GridN THEN 2 * GridN - m ELSE m
    IN  IF 2 * m2 = GridN THEN <<0, 0>>
        ELSE IF 2 * m2 > GridN THEN <<-1, GridN - m2>>
        ELSE <<1, m2>>

\* sin(x) = cos(x - pi/2)
CycSin(n) == CycCos(n - (GridN \div 2))

\* cos(b/RadDen) and sin(b/RadDen) as <<sign, f, |b|>>
RadCos(b) == <<1, "c", Abs(b)>>
RadSin(b) == IF b = 0 THEN <<0, "c", 0>>
             ELSE <<(IF b < 0 THEN -1 ELSE 1), "s", Abs(b)>>

\* the number c * pi^p * cyc * rad
Mk(p, cyc, rad, c) ==
    IF cyc[1] = 0 \/ rad[1] = 0 \/ RatIsZero(c) THEN {}
    ELSE {[p |-> p, j |-> cyc[2], f |-> rad[2], b |-> rad[3],
           c |-> RatMul(RatInt(cyc[1] * rad[1]), c)]}

Zero == {}
RatVal(q) == Mk(0, <<1, 0>>, <<1, "c", 0>>, q)
Num(n) == RatVal(RatInt(n))

Coef(u, key) ==
    IF \E x \in u : Key(x) = key
    THEN (CHOOSE x \in u : Key(x) = key).c
    ELSE <<0, 1>>

Add(u, v) ==
    LET keys == {Key(x) : x \in u \cup v}
    IN  {[p |-> key[1], j |-> key[2], f |-> key[3], b |-> key[4],
          c |-> RatAdd(Coef(u, key), Coef(v, key))] :
            key \in {q \in keys : ~RatIsZero(RatAdd(Coef(u, q), Coef(v, q)))}}

Scale(q, u) ==
    IF RatIsZero(q) THEN {}
    ELSE {[p |-> x.p, j |-> x.j, f |-> x.f, b |-> x.b, c |-> RatMul(q, x.c)] :
            x \in u}

Neg(u) == Scale(<<-1, 1>>, u)
Sub(u, v) == Add(u, Neg(v))

\* cos(i)cos(j) = (cos(i+j) + cos(i-j)) / 2
CycProd(i, j) == <<CycCos(i + j), CycCos(i - j)>>

\* product of two F(b/RadDen) factors as a half-sum of two
RadProd(f1, b1, f2, b2) ==
    CASE f1 = "c" /\ f2 = "c" -> <<RadCos(b1 - b2), RadCos(b1 + b2)>>
      [] f1 = "s" /\ f2 = "s" ->
            <<RadCos(b1 - b2), <<-1, "c", Abs(b1 + b2)>>>>
      [] f1 = "s" /\ f2 = "c" -> <<RadSin(b1 + b2), RadSin(b1 - b2)>>
      [] f1 = "c" /\ f2 = "s" -> <<RadSin(b1 + b2), RadSin(b2 - b1)>>

TermMul(x, y) ==
    LET cp == CycProd(x.j, y.j)
        rp == RadProd(x.f, x.b, y.f, y.b)
        q  == RatMul(RatMul(x.c, y.c), <<1, 4>>)
        p  == x.p + y.p
    IN  Add(Add(Mk(p, cp[1], rp[1], q), Mk(p, cp[1], rp[2], q)),
            Add(Mk(p, cp[2], rp[1], q), Mk(p, cp[2], rp[2], q)))

RECURSIVE SumPairs(_)
SumPairs(ps) ==
    IF ps = {} THEN Zero
    ELSE LET q == CHOOSE q \in ps : TRUE
         IN  Add(TermMul(q[1], q[2]), SumPairs(ps \ {q}))

Mul(u, v) == SumPairs(u \X v)

---------------------------------------------------------------------------
(* Angles *)

Ang(a, b) == [pi |-> a, rd |-> b]
AngZero == Ang(0, 0)
\* n * pi
PiAng(n) == Ang(n * GridN, 0)
\* an angle of b radians
RadAng(b) == Ang(0, b * RadDen)
AngAdd(s, t) == Ang(s.pi + t.pi, s.rd + t.rd)
\* q * t for a rational q; the frequencies of the curves are whole numbers
AngMul(q, t) ==
    CASE q[2] = 1 -> Ang(q[1] * t.pi, q[1] * t.rd)

\* the angle as a real number: a*pi/GridN + b/RadDen
TVal(t) ==
    Add(Mk(1, <<1, 0>>, <<1, "c", 0>>, Rat(t.pi, GridN)),
        RatVal(Rat(t.rd, RadDen)))

\* np.cos, np.sin: cos(A + B) = cos A cos B - sin A sin B
Cos(t) ==
    Add(Mk(0, CycCos(t.pi), RadCos(t.rd), <<1, 1>>),
        Mk(0, CycSin(t.pi), RadSin(t.rd), <<-1, 1>>))
Sin(t) ==
    Add(Mk(0, CycSin(t.pi), RadCos(t.rd), <<1, 1>>),
        Mk(0, CycCos(t.pi), RadSin(t.rd), <<1, 1>>))

---------------------------------------------------------------------------
(* class CurveMath *)

\* keys of on_curve_change, in combo-box order
CurveKeys == <<"cycloid", "trochoid", "cardioid", "nephroid", "astroid",
               "epicycloid", "epitrochoid", "hypocycloid", "hypotrochoid",
               "lissajous", "rose">>

NoResult == [tag |-> "none"]
Ok(v) == [tag |-> "ok", val |-> v]

Pt(x, y) == [tag |-> "ok", x |-> x, y |-> y]
\* Python's int / float with a zero divisor
Raise == [tag |-> "ZeroDivisionError"]

Pow3(u) == Mul(Mul(u, u), u)

\* x, y = 0, 0: what get_point returns when no branch matches
unknown_kind_point_raises == [tag |-> "ValueError"]
unknown_kind_point == Pt(Zero, Zero)

EpiHypo == {"epicycloid", "epitrochoid", "hypocycloid", "hypotrochoid"}

\* the fallback 1 taken whatever k is
guarded_r_small_always_one(r, k) == RatInt(1)

\* the fallback 0 in place of 1
guarded_r_small_fallback_zero(r, k) ==
    IF k # 0 THEN RatDiv(RatInt(r), RatInt(k)) ELSE RatInt(0)

\* r_small = r / k if k != 0 else 1
guarded_r_small(r, k) ==
    IF k # 0 THEN RatDiv(RatInt(r), RatInt(k)) ELSE RatInt(1)

\* lines 377-379
cycloid_point(t, r) ==
    LET rq == RatInt(r)
    IN  Pt(Scale(rq, Sub(TVal(t), Sin(t))),
           Scale(rq, Sub(Num(1), Cos(t))))

\* y = r + d * np.cos(t)
trochoid_point_plus(t, r, d) ==
    LET rq == RatInt(r)
        dq == RatInt(d)
    IN  Pt(Sub(Scale(rq, TVal(t)), Scale(dq, Sin(t))),
           Add(RatVal(rq), Scale(dq, Cos(t))))

\* lines 380-382
trochoid_point(t, r, d) ==
    LET rq == RatInt(r)
        dq == RatInt(d)
    IN  Pt(Sub(Scale(rq, TVal(t)), Scale(dq, Sin(t))),
           Sub(RatVal(rq), Scale(dq, Cos(t))))

\* lines 383-385
cardioid_point(t, r) ==
    LET rq == RatInt(r)
        t2 == AngMul(RatInt(2), t)
    IN  Pt(Sub(Scale(RatMul(RatInt(2), rq), Cos(t)), Scale(rq, Cos(t2))),
           Sub(Scale(RatMul(RatInt(2), rq), Sin(t)), Scale(rq, Sin(t2))))

\* lines 386-390
nephroid_point(t, r) ==
    LET R  == RatInt(r)
        b  == RatDiv(RatInt(r), RatInt(2))
        Rb == RatAdd(R, b)
    IN  IF RatIsZero(b) THEN Raise
        ELSE LET ft == AngMul(RatDiv(Rb, b), t)
             IN  Pt(Sub(Scale(Rb, Cos(t)), Scale(b, Cos(ft))),
                    Sub(Scale(Rb, Sin(t)), Scale(b, Sin(ft))))

\* lines 391-393
astroid_point(t, r) ==
    Pt(Scale(RatInt(r), Pow3(Cos(t))), Scale(RatInt(r), Pow3(Sin(t))))

\* lines 394-398
epicycloid_point(t, r, k) ==
    LET R  == RatInt(r)
        rs == guarded_r_small(r, k)
        Rr == RatAdd(R, rs)
    IN  IF RatIsZero(rs) THEN Raise
        ELSE LET ft == AngMul(RatDiv(Rr, rs), t)
             IN  Pt(Sub(Scale(Rr, Cos(t)), Scale(rs, Cos(ft))),
                    Sub(Scale(Rr, Sin(t)), Scale(rs, Sin(ft))))

\* lines 399-403
epitrochoid_point(t, r, k, d) ==
    LET R  == RatInt(r)
        dq == RatInt(d)
        rs == guarded_r_small(r, k)
        Rr == RatAdd(R, rs)
    IN  IF RatIsZero(rs) THEN Raise
        ELSE LET ft == AngMul(RatDiv(Rr, rs), t)
             IN  Pt(Sub(Scale(Rr, Cos(t)), Scale(dq, Cos(ft))),
                    Sub(Scale(Rr, Sin(t)), Scale(dq, Sin(ft))))

\* y = ... + r_small * np.sin(...)
hypocycloid_point_y_plus(t, r, k) ==
    LET R  == RatInt(r)
        rs == guarded_r_small(r, k)
        Rr == RatSub(R, rs)
    IN  IF RatIsZero(rs) THEN Raise
        ELSE LET ft == AngMul(RatDiv(Rr, rs), t)
             IN  Pt(Add(Scale(Rr, Cos(t)), Scale(rs, Cos(ft))),
                    Add(Scale(Rr, Sin(t)), Scale(rs, Sin(ft))))

\* lines 404-408
hypocycloid_point(t, r, k) ==
    LET R  == RatInt(r)
        rs == guarded_r_small(r, k)
        Rr == RatSub(R, rs)
    IN  IF RatIsZero(rs) THEN Raise
        ELSE LET ft == AngMul(RatDiv(Rr, rs), t)
             IN  Pt(Add(Scale(Rr, Cos(t)), Scale(rs, Cos(ft))),
                    Sub(Scale(Rr, Sin(t)), Scale(rs, Sin(ft))))

\* lines 409-413
hypotrochoid_point(t, r, k, d) ==
    LET R  == RatInt(r)
        dq == RatInt(d)
        rs == guarded_r_small(r, k)
        Rr == RatSub(R, rs)
    IN  IF RatIsZero(rs) THEN Raise
        ELSE LET ft == AngMul(RatDiv(Rr, rs), t)
             IN  Pt(Add(Scale(Rr, Cos(t)), Scale(dq, Cos(ft))),
                    Sub(Scale(Rr, Sin(t)), Scale(dq, Sin(ft))))

\* lines 414-419
lissajous_point(t, r, k, d) ==
    LET freq_a == RatInt(k)
        freq_b == RatInt(3)
        delta  == RadAng(d)
    IN  Pt(Scale(RatInt(r), Sin(AngAdd(AngMul(freq_a, t), delta))),
           Scale(RatInt(r), Sin(AngMul(freq_b, t))))

\* lines 420-423
rose_point(t, r, k) ==
    LET rad == Scale(RatInt(r), Cos(AngMul(RatInt(k), t)))
    IN  Pt(Mul(rad, Cos(t)), Mul(rad, Sin(t)))

\* the cardioid branch computing with r / k
get_point_cardioid_uses_k(kind, t, r, k, d) ==
    CASE kind = "cycloid" -> cycloid_point(t, r)
      [] kind = "trochoid" -> trochoid_point(t, r, d)
      [] kind = "cardioid" -> epicycloid_point(t, r, k)
      [] kind = "nephroid" -> nephroid_point(t, r)
      [] kind = "astroid" -> astroid_point(t, r)
      [] kind = "epicycloid" -> epicycloid_point(t, r, k)
      [] kind = "epitrochoid" -> epitrochoid_point(t, r, k, d)
      [] kind = "hypocycloid" -> hypocycloid_point(t, r, k)
      [] kind = "hypotrochoid" -> hypotrochoid_point(t, r, k, d)
      [] kind = "lissajous" -> lissajous_point(t, r, k, d)
      [] kind = "rose" -> rose_point(t, r, k)
      [] OTHER -> unknown_kind_point

\* the cycloid branch computing with d, as the trochoid branch does
get_point_cycloid_uses_d(kind, t, r, k, d) ==
    CASE kind = "cycloid" -> trochoid_point(t, r, d)
      [] kind = "trochoid" -> trochoid_point(t, r, d)
      [] kind = "cardioid" -> cardioid_point(t, r)
      [] kind = "nephroid" -> nephroid_point(t, r)
      [] kind = "astroid" -> astroid_point(t, r)
      [] kind = "epicycloid" -> epicycloid_point(t, r, k)
      [] kind = "epitrochoid" -> epitrochoid_point(t, r, k, d)
      [] kind = "hypocycloid" -> hypocycloid_point(t, r, k)
      [] kind = "hypotrochoid" -> hypotrochoid_point(t, r, k, d)
      [] kind = "lissajous" -> lissajous_point(t, r, k, d)
      [] kind = "rose" -> rose_point(t, r, k)
      [] OTHER -> unknown_kind_point

get_point(kind, t, r, k, d) ==
    CASE kind = "cycloid" -> cycloid_point(t, r)
      [] kind = "trochoid" -> trochoid_point(t, r, d)
      [] kind = "cardioid" -> cardioid_point(t, r)
      [] kind = "nephroid" -> nephroid_point(t, r)
      [] kind = "astroid" -> astroid_point(t, r)
      [] kind = "epicycloid" -> epicycloid_point(t, r, k)
      [] kind = "epitrochoid" -> epitrochoid_point(t, r, k, d)
      [] kind = "hypocycloid" -> hypocycloid_point(t, r, k)
      [] kind = "hypotrochoid" -> hypotrochoid_point(t, r, k, d)
      [] kind = "lissajous" -> lissajous_point(t, r, k, d)
      [] kind = "rose" -> rose_point(t, r, k)
      [] OTHER -> unknown_kind_point

\* components of the triple get_auxiliary_data returns.  The 100-point
\* arrays are stood for by the line or circle they sample.
NoneV == [shape |-> "None"]
LineV(x0, x1, y) == [shape |-> "line", x0 |-> x0, x1 |-> x1, y |-> y]
CircleV(cx, cy, rad) == [shape |-> "circle", cx |-> cx, cy |-> cy, rad |-> rad]
PointV(cx, cy) == [shape |-> "point", cx |-> cx, cy |-> cy]
Aux(fixed, roll, center) ==
    [tag |-> "ok", fixed |-> fixed, roll |-> roll, center |-> center]

\* r_small of get_auxiliary_data: r / k is not guarded here
aux_r_small(kind, r, k) ==
    CASE kind = "cardioid" -> Ok(RatInt(r))
      [] kind = "nephroid" -> Ok(RatDiv(RatInt(r), RatInt(2)))
      [] kind = "astroid"  -> Ok(RatDiv(RatInt(r), RatInt(4)))
      [] OTHER -> IF k = 0 THEN Raise ELSE Ok(RatDiv(RatInt(r), RatInt(k)))

\* what the first component get_auxiliary_data returns is: the line the
\* circle rolls on, the fixed circle, or None; the call raises where
\* r_small = r / k does
aux_fixed_shape_no_astroid(kind, r, k) ==
    CASE kind \in {"cycloid", "trochoid"} -> "line"
      [] kind \in {"epicycloid", "cardioid", "nephroid", "epitrochoid",
                   "hypocycloid", "hypotrochoid"} ->
            IF k = 0 /\ kind \in EpiHypo THEN "ZeroDivisionError" ELSE "circle"
      [] OTHER -> "None"
aux_fixed_shape(kind, r, k) ==
    CASE kind \in {"cycloid", "trochoid"} -> "line"
      [] kind \in {"epicycloid", "cardioid", "nephroid", "epitrochoid",
                   "hypocycloid", "astroid", "hypotrochoid"} ->
            IF kind \notin {"cardioid", "nephroid", "astroid"} /\ k = 0
            THEN "ZeroDivisionError"
            ELSE "circle"
      [] OTHER -> "None"

\* (fixed_x, fixed_y): np.linspace(-r, r * 4 * np.pi + r, 100) on y = 0, or
\* the circle of radius R about the origin
aux_fixed_data(kind, r, k) ==
    CASE aux_fixed_shape(kind, r, k) = "line" ->
            LineV(Num(-r), Add(Scale(RatInt(r), TVal(PiAng(4))), Num(r)), Zero)
      [] aux_fixed_shape(kind, r, k) = "circle" -> CircleV(Zero, Zero, Num(r))
      [] aux_fixed_shape(kind, r, k) = "None" -> NoneV

\* roll_x, roll_y and (cx, cy): the rolling circle of radius rs, its centre
\* at distance dist from the origin
aux_rolling(rs, dist, t) ==
    LET cx == Scale(dist, Cos(t))
        cy == Scale(dist, Sin(t))
    IN  <<CircleV(cx, cy, RatVal(rs)), PointV(cx, cy)>>

get_auxiliary_data(kind, t, r, k, d) ==
    LET rq    == RatInt(r)
        fixed == aux_fixed_data(kind, r, k)
    IN
    CASE kind \in {"cycloid", "trochoid"} ->
            LET cx == Scale(rq, TVal(t))
                cy == RatVal(rq)
            IN  Aux(fixed, CircleV(cx, cy, RatVal(rq)), PointV(cx, cy))
      [] kind \in {"epicycloid", "cardioid", "nephroid", "epitrochoid"} ->
            LET rs == aux_r_small(kind, r, k)
            IN  IF rs.tag # "ok" THEN Raise
                ELSE LET rc == aux_rolling(rs.val, RatAdd(rq, rs.val), t)
                     IN  Aux(fixed, rc[1], rc[2])
      [] kind \in {"hypocycloid", "astroid", "hypotrochoid"} ->
            LET rs == aux_r_small(kind, r, k)
            IN  IF rs.tag # "ok" THEN Raise
                ELSE LET rc == aux_rolling(rs.val, RatSub(rq, rs.val), t)
                     IN  Aux(fixed, rc[1], rc[2])
      [] OTHER -> Aux(NoneV, NoneV, NoneV)

\* a rose with odd k given the range pi
get_max_t_rose_odd_half(kind, k) ==
    CASE kind \in {"cycloid", "trochoid"} -> PiAng(4)
      [] kind \in EpiHypo -> PiAng(2 * k)
      [] kind = "rose" -> IF k % 2 # 0 THEN PiAng(1) ELSE PiAng(2)
      [] OTHER -> PiAng(2)

\* np.pi * k in place of 2 * np.pi * k
get_max_t_half_turns(kind, k) ==
    CASE kind \in {"cycloid", "trochoid"} -> PiAng(4)
      [] kind \in EpiHypo -> PiAng(k)
      [] OTHER -> PiAng(2)

\* a range that depends on the viewer's t_current
get_max_t_reads_t_current(kind, k) ==
    CASE kind \in {"cycloid", "trochoid"} -> PiAng(4)
      [] kind \in EpiHypo -> PiAng(2 * k)
      [] OTHER -> IF t_current = AngZero THEN PiAng(2) ELSE PiAng(4)

get_max_t(kind, k) ==
    CASE kind \in {"cycloid", "trochoid"} -> PiAng(4)
      [] kind \in EpiHypo -> PiAng(2 * k)
      [] kind = "rose" -> IF k % 2 # 0 THEN PiAng(2) ELSE PiAng(2)
      [] OTHER -> PiAng(2)

\* steps = 1000
steps == 1000

\* np.linspace without its last value: max_t * i / steps
linspace_endpoint_excluded(n) == [i \in 1 .. n |-> Rat(i - 1, n)]

\* np.linspace(0, max_t, steps): value i of n is max_t * (i-1)/(n-1); the
\* model keeps the fraction (i-1)/(n-1)
linspace(n) == [i \in 1 .. n |-> Rat(i - 1, n - 1)]

\* x, y = CurveMath.get_point(curve_type, t, r, k, d) for t = frac * max_t:
\* computed at both ends of the range, which are angles of the model, and
\* kept as the expression in between
sample_point(kind, frac, r, k, d, max_t) ==
    IF frac = RatInt(0) THEN get_point(kind, AngZero, r, k, d)
    ELSE IF frac = RatInt(1) THEN get_point(kind, max_t, r, k, d)
    ELSE [tag |-> "get_point", at |-> frac]

\* np.diff(xs), np.diff(ys): the index pairs (i, i+1) whose differences
\* dx, dy enter np.sum(np.sqrt(dx**2 + dy**2))
diff(n) == {<<i, i + 1>> : i \in 1 .. n - 1}

\* xs[:-1] * ys[1:] - xs[1:] * ys[:-1]: the index pairs (i, i+1) whose
\* cross products enter 0.5 * np.abs(np.sum(...))
cross_pairs(n) == {<<i, i + 1>> : i \in 1 .. n - 1}

calculate_stats(kind, r, k, d, max_t) ==
    LET t_vals == linspace(steps)
        pts    == [i \in 1 .. steps |-> sample_point(kind, t_vals[i], r, k, d, max_t)]
    IN  IF \E i \in 1 .. steps : pts[i] = Raise THEN Raise
        ELSE [tag    |-> "ok",
              max_t  |-> max_t,
              t_vals |-> t_vals,
              pts    |-> pts,
              length |-> [sum_sqrt_over |-> diff(steps)],
              area   |-> [half_abs_sum_over |-> cross_pairs(steps)]]

---------------------------------------------------------------------------
(* Inputs *)

\* the slider ranges of init_viewer_ui
SliderRadiusMin == 10
SliderRadiusMax == 100
SliderKMin == 1
SliderKMax == 10
SliderDMin == 10
SliderDMax == 150
SliderSpeedMin == 1
SliderSpeedMax == 20

\* the fields init_viewer_ui sets
InitRadius == 50
InitK == 3
InitD == 50
InitSpeed == 5

\* the values the model moves the sliders to
RadiusInputs == {SliderRadiusMin, InitRadius}

\* slider_k.setRange(0, 10)
KInputsRangeFromZero == {SliderKMin - 1, InitK}

KInputs == {SliderKMin, InitK}
DInputs == {SliderDMin, InitD}
SpeedInputs == {InitSpeed, SliderSpeedMax}

\* curve_type strings that are none of the eleven keys
UnknownKinds == {"spiral", "Cycloid"}
KnownKinds == {CurveKeys[i] : i \in 1..Len(CurveKeys)}

\* arguments of the direct calls of the CurveMath functions: k = 0 is the
\* guarded divisor, t runs over the grid of one turn, 0 .. 2*pi (SeekMaxT
\* takes it on to the end of the range)
CallKinds == KnownKinds \cup UnknownKinds
CallK == 0 .. MaxK
CallT == {Ang(n, 0) : n \in 0 .. 2 * GridN}

---------------------------------------------------------------------------
(* class MainWindow *)

\* floor(1000 * RadDen * pi): for whole multiples m*pi, m <= 2*SliderKMax,
\* and b/RadDen radians, b/RadDen > m*pi iff 1000*b > m*PiRadDenE3
PiRadDenE3 == 1570796

\* s > t for angles
AngGt(s, t) ==
    (s.rd - t.rd) * GridN * 1000 > (t.pi - s.pi) * PiRadDenE3

\* the entries of combo_curve, by the kind each label names
ComboItems ==
    <<"cycloid", "trochoid", "cardioid", "nephroid", "astroid",
      "epicycloid", "epitrochoid", "hypocycloid", "hypotrochoid",
      "lissajous", "rose">>

\* update_plot running calculate_stats over [0, current_t], the range of the
\* trajectory
update_plot_stats_to_current_t(kind, r, k, d, aux, current_t) ==
    [kind |-> kind, r |-> r, k |-> k, d |-> d, t |-> current_t,
     aux_visible |->
        aux /\ aux_fixed_shape(kind, r, k) # "None",
     max_t_for_calc |-> current_t]

\* what update_plot(current_t) puts on the canvas and the labels: the curve
\* (line, point) is a function of the arguments recorded here; the overlay
\* is shown when show_aux is set and fixed_data is not None; the length and
\* area labels show calculate_stats(kind, r, k, d, max_t_for_calc)
update_plot(kind, r, k, d, aux, current_t) ==
    [kind |-> kind, r |-> r, k |-> k, d |-> d, t |-> current_t,
     aux_visible |->
        aux /\ aux_fixed_shape(kind, r, k) # "None",
     max_t_for_calc |-> get_max_t(kind, k)]

draw_static(kind, r, k, d, aux, t) == update_plot(kind, r, k, d, aux, t)

\* reset() without self.timer.stop()
reset_fields_timer_running ==
    /\ is_playing' = FALSE
    /\ timer_active' = timer_active
    /\ btn_play' = "play"
    /\ t_current' = AngZero

\* reset() without self.t_current = 0.0
reset_fields_keeps_t ==
    /\ is_playing' = FALSE
    /\ timer_active' = FALSE
    /\ btn_play' = "play"
    /\ t_current' = t_current

\* reset(): the part that does not depend on the caller
reset_fields ==
    /\ is_playing' = FALSE
    /\ timer_active' = FALSE
    /\ btn_play' = "play"
    /\ t_current' = AngZero

reset ==
    /\ reset_fields
    /\ UNCHANGED <<curve_type, radius, k_val, d_val, speed, show_aux>>
    /\ plot' = draw_static(curve_type, radius, k_val, d_val, show_aux, AngZero)

\* on_curve_change without self.reset(), redrawing like the slider handlers
on_curve_change_keeps_playing(index) ==
    /\ curve_type' = CurveKeys[index + 1]
    /\ plot' = IF ~is_playing
               THEN draw_static(curve_type', radius, k_val, d_val, show_aux, t_current)
               ELSE plot
    /\ UNCHANGED <<radius, k_val, d_val, speed, t_current, is_playing,
                   show_aux, timer_active, btn_play>>

on_curve_change(index) ==
    /\ curve_type' = CurveKeys[index + 1]
    /\ reset_fields
    /\ UNCHANGED <<radius, k_val, d_val, speed, show_aux>>
    /\ plot' = draw_static(curve_type', radius, k_val, d_val, show_aux, AngZero)

on_radius_change(value) ==
    /\ radius' = value
    /\ plot' = IF ~is_playing
               THEN draw_static(curve_type, value, k_val, d_val, show_aux, t_current)
               ELSE plot
    /\ UNCHANGED <<curve_type, k_val, d_val, speed, t_current, is_playing,
                   show_aux, timer_active, btn_play>>

on_k_change(value) ==
    /\ k_val' = value
    /\ plot' = IF ~is_playing
               THEN draw_static(curve_type, radius, value, d_val, show_aux, t_current)
               ELSE plot
    /\ UNCHANGED <<curve_type, radius, d_val, speed, t_current, is_playing,
                   show_aux, timer_active, btn_play>>

on_d_change(value) ==
    /\ d_val' = value
    /\ plot' = IF ~is_playing
               THEN draw_static(curve_type, radius, k_val, value, show_aux, t_current)
               ELSE plot
    /\ UNCHANGED <<curve_type, radius, k_val, speed, t_current, is_playing,
                   show_aux, timer_active, btn_play>>

on_speed_change(value) ==
    /\ speed' = value
    /\ UNCHANGED <<curve_type, radius, k_val, d_val, t_current, is_playing,
                   show_aux, timer_active, btn_play, plot>>

on_aux_toggle(checked) ==
    /\ show_aux' = checked
    /\ plot' = IF ~is_playing
               THEN draw_static(curve_type, radius, k_val, d_val, checked, t_current)
               ELSE plot
    /\ UNCHANGED <<curve_type, radius, k_val, d_val, speed, t_current,
                   is_playing, timer_active, btn_play>>

toggle_play ==
    /\ is_playing' = ~is_playing
    /\ IF is_playing'
       THEN btn_play' = "pause" /\ timer_active' = TRUE
       ELSE btn_play' = "play" /\ timer_active' = FALSE
    /\ UNCHANGED <<curve_type, radius, k_val, d_val, speed, t_current,
                   show_aux, plot>>

\* update_animation without self.t_current = max_t
update_animation_no_clamp ==
    /\ timer_active
    /\ LET max_t == get_max_t(curve_type, k_val)
           t1    == AngAdd(t_current, Ang(0, speed))
       IN  /\ t_current' = t1
           /\ IF AngGt(t1, max_t)
              THEN /\ is_playing' = ~is_playing
                   /\ IF is_playing'
                      THEN btn_play' = "pause" /\ timer_active' = TRUE
                      ELSE btn_play' = "play" /\ timer_active' = FALSE
              ELSE UNCHANGED <<is_playing, timer_active, btn_play>>
           /\ plot' = update_plot(curve_type, radius, k_val, d_val, show_aux, t1)
    /\ UNCHANGED <<curve_type, radius, k_val, d_val, speed, show_aux>>

\* update_animation starting over at the end of the range
update_animation_wraps ==
    /\ timer_active
    /\ LET max_t == get_max_t(curve_type, k_val)
           t1    == AngAdd(t_current, Ang(0, speed))
       IN  /\ t_current' = IF AngGt(t1, max_t) THEN AngZero ELSE t1
           /\ UNCHANGED <<is_playing, timer_active, btn_play>>
           /\ plot' = update_plot(curve_type, radius, k_val, d_val, show_aux,
                                  t_current')
    /\ UNCHANGED <<curve_type, radius, k_val, d_val, speed, show_aux>>

\* update_animation without self.toggle_play()
update_animation_never_stops ==
    /\ timer_active
    /\ LET max_t == get_max_t(curve_type, k_val)
           t1    == AngAdd(t_current, Ang(0, speed))
       IN  /\ t_current' = IF AngGt(t1, max_t) THEN max_t ELSE t1
           /\ UNCHANGED <<is_playing, timer_active, btn_play>>
           /\ plot' = update_plot(curve_type, radius, k_val, d_val, show_aux,
                                  t_current')
    /\ UNCHANGED <<curve_type, radius, k_val, d_val, speed, show_aux>>

\* timer.timeout: dt = 0.01 * (speed / 5.0) is speed/RadDen radians
update_animation ==
    /\ timer_active
    /\ LET max_t == get_max_t(curve_type, k_val)
           t1    == AngAdd(t_current, Ang(0, speed))
       IN  /\ IF AngGt(t1, max_t)
              THEN /\ t_current' = max_t
                   /\ is_playing' = ~is_playing
                   /\ IF is_playing'
                      THEN btn_play' = "pause" /\ timer_active' = TRUE
                      ELSE btn_play' = "play" /\ timer_active' = FALSE
              ELSE /\ t_current' = t1
                   /\ UNCHANGED <<is_playing, timer_active, btn_play>>
           /\ plot' = update_plot(curve_type, radius, k_val, d_val, show_aux,
                                  t_current')
    /\ UNCHANGED <<curve_type, radius, k_val, d_val, speed, show_aux>>

calls == <<res_point, res_aux, res_max_t, first_max_t, res_stats>>

\* one more edit of a slider or the checkbox
Edit == n_edits < MaxEdits /\ n_edits' = n_edits + 1

\* MainWindow.__init__: init_viewer_ui, then reset()
Init ==
    /\ curve_type = "cycloid"
    /\ radius = InitRadius
    /\ k_val = InitK
    /\ d_val = InitD
    /\ speed = InitSpeed
    /\ t_current = AngZero
    /\ is_playing = FALSE
    /\ show_aux = TRUE
    /\ timer_active = FALSE
    /\ btn_play = "play"
    /\ plot = draw_static("cycloid", InitRadius, InitK, InitD, TRUE, AngZero)
    /\ res_point = NoResult
    /\ res_aux = NoResult
    /\ res_max_t = NoResult
    /\ first_max_t = NoResult
    /\ res_stats = NoResult
    /\ n_edits = 0

\* Qt emits currentIndexChanged, valueChanged and toggled on a change only
Next ==
    \/ \E index \in 0 .. Len(CurveKeys) - 1 :
          CurveKeys[index + 1] # curve_type /\ on_curve_change(index)
             /\ UNCHANGED <<calls, n_edits>>
    \/ \E value \in RadiusInputs \ {radius} :
          on_radius_change(value) /\ Edit /\ UNCHANGED calls
    \/ \E value \in KInputs \ {k_val} :
          on_k_change(value) /\ Edit /\ UNCHANGED calls
    \/ \E value \in DInputs \ {d_val} :
          on_d_change(value) /\ Edit /\ UNCHANGED calls
    \/ \E value \in SpeedInputs \ {speed} :
          on_speed_change(value) /\ Edit /\ UNCHANGED calls
    \/ on_aux_toggle(~show_aux) /\ Edit /\ UNCHANGED calls
    \/ toggle_play /\ UNCHANGED <<calls, n_edits>>
    \/ reset /\ UNCHANGED <<calls, n_edits>>
    \/ update_animation /\ UNCHANGED <<calls, n_edits>>

Spec == Init /\ [][Next]_vars

---------------------------------------------------------------------------
(* The viewer left playing: the timer keeps firing (QTimer, every 20 ms     *)
(* while it is active) and the user does nothing.  The start is a viewer    *)
(* that is playing: at the start of the range, or part-way (3.002 rad,      *)
(* inside the range of every kind) after the sliders were moved             *)

PartWay == Ang(0, 3 * RadDen + 1)

InitPlay ==
    /\ curve_type \in KnownKinds
    /\ radius = InitRadius
    /\ k_val \in KInputs
    /\ d_val = InitD
    /\ speed \in SpeedInputs
    /\ t_current \in {AngZero, PartWay}
    /\ is_playing = TRUE
    /\ show_aux = TRUE
    /\ timer_active = TRUE
    /\ btn_play = "pause"
    /\ plot = draw_static(curve_type, radius, k_val, d_val, show_aux, t_current)
    /\ res_point = NoResult
    /\ res_aux = NoResult
    /\ res_max_t = NoResult
    /\ first_max_t = NoResult
    /\ res_stats = NoResult
    /\ n_edits = 0

Tick == update_animation /\ UNCHANGED <<calls, n_edits>>

SpecPlay == InitPlay /\ [][Tick]_vars /\ WF_vars(Tick)

---------------------------------------------------------------------------
(* Direct calls of the static methods of CurveMath, on arguments held in    *)
(* the fields a viewer passes: curve_type, t_current, radius, k_val, d_val  *)

CallGetPoint ==
    /\ res_point' = get_point(curve_type, t_current, radius, k_val, d_val)
    /\ UNCHANGED <<curve_type, radius, k_val, d_val, speed, t_current,
                   is_playing, show_aux, timer_active, btn_play, plot,
                   res_aux, res_max_t, first_max_t, res_stats, n_edits>>

CallGetAuxiliaryData ==
    /\ res_aux' = get_auxiliary_data(curve_type, t_current, radius, k_val, d_val)
    /\ UNCHANGED <<curve_type, radius, k_val, d_val, speed, t_current,
                   is_playing, show_aux, timer_active, btn_play, plot,
                   res_point, res_max_t, first_max_t, res_stats, n_edits>>

\* a result of get_max_t: moved says that t_current has changed since the
\* call, again that the call came after an earlier call and such a change
MaxTCall(v, again) == [tag |-> "ok", val |-> v, moved |-> FALSE, again |-> again]

Moved(res) == IF res = NoResult THEN res ELSE [res EXCEPT !.moved = TRUE]

CallGetMaxT ==
    /\ res_max_t' = MaxTCall(get_max_t(curve_type, k_val),
                             res_max_t # NoResult /\ res_max_t.moved)
    /\ first_max_t' = IF first_max_t = NoResult
                      THEN Ok(res_max_t'.val) ELSE first_max_t
    /\ UNCHANGED <<curve_type, radius, k_val, d_val, speed, t_current,
                   is_playing, show_aux, timer_active, btn_play, plot,
                   res_point, res_aux, res_stats, n_edits>>

\* the caller moves on to the next parameter of the grid
StepT ==
    /\ Ang(t_current.pi + 1, 0) \in CallT
    /\ t_current' = Ang(t_current.pi + 1, 0)
    /\ res_point' = NoResult
    /\ res_aux' = NoResult
    /\ res_max_t' = Moved(res_max_t)
    /\ UNCHANGED <<curve_type, radius, k_val, d_val, speed, is_playing,
                   show_aux, timer_active, btn_play, plot, first_max_t,
                   res_stats, n_edits>>

\* the caller moves to the end of the range, as update_animation does with
\* self.t_current = max_t
SeekMaxT ==
    /\ res_max_t # NoResult
    /\ t_current # res_max_t.val
    /\ t_current' = res_max_t.val
    /\ res_point' = NoResult
    /\ res_aux' = NoResult
    /\ res_max_t' = Moved(res_max_t)
    /\ UNCHANGED <<curve_type, radius, k_val, d_val, speed, is_playing,
                   show_aux, timer_active, btn_play, plot, first_max_t,
                   res_stats, n_edits>>

InitMath ==
    /\ curve_type \in CallKinds
    /\ radius \in RadiusInputs
    /\ k_val \in CallK
    /\ d_val \in DInputs
    /\ t_current \in CallT
    /\ speed = InitSpeed
    /\ is_playing = FALSE
    /\ show_aux = TRUE
    /\ timer_active = FALSE
    /\ btn_play = "play"
    /\ plot = NoResult
    /\ res_point = NoResult
    /\ res_aux = NoResult
    /\ res_max_t = NoResult
    /\ first_max_t = NoResult
    /\ res_stats = NoResult
    /\ n_edits = 0

NextMath ==
    \/ CallGetPoint
    \/ CallGetAuxiliaryData
    \/ CallGetMaxT
    \/ StepT
    \/ SeekMaxT

SpecMath == InitMath /\ [][NextMath]_vars

---------------------------------------------------------------------------
(* Direct calls of CurveMath.calculate_stats, with the max_t that           *)
(* update_plot passes: the result of get_max_t                              *)

CallCalculateStats ==
    /\ res_max_t # NoResult
    /\ res_stats' = calculate_stats(curve_type, radius, k_val, d_val, res_max_t.val)
    /\ UNCHANGED <<curve_type, radius, k_val, d_val, speed, t_current,
                   is_playing, show_aux, timer_active, btn_play, plot,
                   res_point, res_aux, res_max_t, first_max_t, n_edits>>

InitStats ==
    /\ InitMath
    /\ t_current = AngZero

NextStats ==
    \/ CallGetMaxT
    \/ CallCalculateStats

SpecStats == InitStats /\ [][NextStats]_vars

---------------------------------------------------------------------------
(* Properties *)

\* the value at t = 0 each curve's equations give
ClosedFormAtZero(kind, r, k, d) ==
    CASE kind = "cycloid" -> Pt(Zero, Zero)
      [] kind = "trochoid" -> Pt(Zero, Num(r - d))
      [] kind \in {"cardioid", "nephroid", "astroid", "epicycloid",
                   "hypocycloid", "rose"} -> Pt(Num(r), Zero)
      [] kind = "epitrochoid" ->
            Pt(RatVal(RatSub(RatAdd(RatInt(r), Rat(r, k)), RatInt(d))), Zero)
      [] kind = "hypotrochoid" ->
            Pt(RatVal(RatAdd(RatSub(RatInt(r), Rat(r, k)), RatInt(d))), Zero)
      [] kind = "lissajous" -> Pt(Scale(RatInt(r), Sin(RadAng(d))), Zero)

\* C1: for each of the eleven kinds and every r, k # 0, d, get_point at
\* t = 0 returns the closed-form value: cycloid (0,0); trochoid (0, r-d);
\* cardioid, nephroid, astroid, epicycloid, hypocycloid, rose (r,0);
\* epitrochoid (r + r/k - d, 0); hypotrochoid (r - r/k + d, 0);
\* lissajous (r*sin(d), 0).
C1_PointAtZero ==
    (/\ res_point # NoResult
     /\ t_current = AngZero
     /\ k_val # 0
     /\ curve_type \in KnownKinds)
    => res_point = ClosedFormAtZero(curve_type, radius, k_val, d_val)

C1_Witness ==
    /\ res_point # NoResult
    /\ t_current = AngZero
    /\ curve_type = "epitrochoid"
    /\ k_val = 3
    /\ radius = SliderRadiusMin
    /\ d_val = InitD

\* C2: get_max_t returns 4*pi for cycloid and trochoid, 2*pi*k for
\* epicycloid, epitrochoid, hypocycloid and hypotrochoid, and 2*pi for
\* every other kind (cardioid, nephroid, astroid, lissajous, rose with k odd
\* or even, unknown kinds).
C2_MaxTValues ==
    res_max_t # NoResult
    => res_max_t.val =
          (IF curve_type \in {"cycloid", "trochoid"} THEN PiAng(4)
           ELSE IF curve_type \in EpiHypo THEN Ang(2 * k_val * GridN, 0)
           ELSE PiAng(2))

C2_Witness ==
    /\ res_max_t # NoResult
    /\ curve_type = "rose"
    /\ k_val = 3
    /\ res_max_t.val = PiAng(2)

\* C3: for every kind but cycloid and trochoid, every r, d and whole k in
\* 1..10, the point at t = get_max_t(kind, k) is the point at t = 0.
C3_MaxTClosesCurve ==
    (/\ res_point # NoResult
     /\ res_max_t # NoResult
     /\ t_current = res_max_t.val
     /\ curve_type \notin {"cycloid", "trochoid"}
     /\ k_val \in SliderKMin .. SliderKMax)
    => res_point = get_point(curve_type, AngZero, radius, k_val, d_val)

C3_Witness ==
    /\ res_point # NoResult
    /\ res_max_t # NoResult
    /\ t_current = res_max_t.val
    /\ curve_type = "hypotrochoid"
    /\ k_val = 3
    /\ t_current = PiAng(6)

\* every parameter of the grid over one range 0 .. 2*pi*k
GridTurns(k) == {Ang(n, 0) : n \in 0 .. 2 * GridN * k}

\* t -> get_point(kind, t, r, k, d) repeats after 2*pi*m
RepeatsAfter(kind, r, k, d, m) ==
    \A t \in GridTurns(k) :
        get_point(kind, AngAdd(t, PiAng(2 * m)), r, k, d) = get_point(kind, t, r, k, d)

\* C4: for epicycloid, epitrochoid, hypocycloid and hypotrochoid with whole
\* k in 2..10, 2*pi*k is the smallest positive period of
\* t -> get_point(kind, t, r, k, d): no m with 0 < m < k has
\* get_point(kind, t + 2*pi*m, r, k, d) = get_point(kind, t, r, k, d) for
\* all t.
C4_MaxTIsSmallestPeriod ==
    (/\ res_max_t # NoResult
     /\ curve_type \in EpiHypo
     /\ k_val \in 2 .. SliderKMax)
    => /\ res_max_t.val = PiAng(2 * k_val)
       /\ ~ \E m \in 1 .. k_val - 1 :
              RepeatsAfter(curve_type, radius, k_val, d_val, m)

\* C5: a timer tick is taken while playing and adds dt to t_current; if the
\* sum exceeds get_max_t(curve_type, k_val), then after the tick t_current
\* is that max_t, is_playing is false and the timer is stopped; otherwise
\* is_playing stays true and t_current is the sum.
C5_TickStopsAtMaxT ==
    [][update_animation =>
        LET max_t == get_max_t(curve_type, k_val)
            t1    == AngAdd(t_current, Ang(0, speed))
        IN  /\ is_playing
            /\ IF AngGt(t1, max_t)
               THEN t_current' = max_t /\ ~is_playing' /\ ~timer_active'
               ELSE t_current' = t1 /\ is_playing' /\ timer_active']_vars

C5_Witness ==
    /\ ~is_playing
    /\ ~timer_active
    /\ t_current # AngZero
    /\ t_current = get_max_t(curve_type, k_val)
    /\ plot.t = t_current

\* C6: for a curve_type that is none of the eleven kinds, get_point returns
\* (0, 0) for every t, r, k, d and raises nothing.
C6_UnknownKindOrigin ==
    (res_point # NoResult /\ curve_type \notin KnownKinds)
    => res_point = Pt(Zero, Zero)

C6_Witness ==
    /\ res_point # NoResult
    /\ curve_type = "spiral"
    /\ k_val = 0
    /\ t_current = PiAng(1)

\* the parametric equations of the four rolling-circle kinds, for a rolling
\* circle of radius rs
RollingPoint(kind, t, r, rs, d) ==
    LET R   == RatInt(r)
        arm == IF kind \in {"epicycloid", "hypocycloid"} THEN rs ELSE RatInt(d)
        Rr  == IF kind \in {"epicycloid", "epitrochoid"}
               THEN RatAdd(R, rs) ELSE RatSub(R, rs)
        ft  == AngMul(RatDiv(Rr, rs), t)
    IN  IF kind \in {"epicycloid", "epitrochoid"}
        THEN Pt(Sub(Scale(Rr, Cos(t)), Scale(arm, Cos(ft))),
                Sub(Scale(Rr, Sin(t)), Scale(arm, Sin(ft))))
        ELSE Pt(Add(Scale(Rr, Cos(t)), Scale(arm, Cos(ft))),
                Sub(Scale(Rr, Sin(t)), Scale(arm, Sin(ft))))

\* C7: for epicycloid, epitrochoid, hypocycloid and hypotrochoid get_point
\* uses the rolling-circle radius r/k when k # 0 and 1 when k = 0; with
\* k = 0 it returns a point and raises no division by zero, for every t, r, d.
C7_GuardedRollingRadius ==
    (res_point # NoResult /\ curve_type \in EpiHypo)
    => /\ res_point.tag = "ok"
       /\ res_point =
            RollingPoint(curve_type, t_current, radius,
                         IF k_val # 0 THEN Rat(radius, k_val) ELSE RatInt(1),
                         d_val)

C7_Witness ==
    /\ res_point # NoResult
    /\ res_point.tag = "ok"
    /\ curve_type = "hypotrochoid"
    /\ k_val = 0
    /\ t_current = Ang(1, 0)

\* C8: get_auxiliary_data(kind, t, r, 0, d) returns without raising for
\* epicycloid, epitrochoid, hypocycloid and hypotrochoid, with the rolling
\* circle of radius 1 that get_point uses for k = 0.
C8_AuxGuardsZeroK ==
    (res_aux # NoResult /\ curve_type \in EpiHypo /\ k_val = 0)
    => /\ res_aux.tag = "ok"
       /\ res_aux.roll.rad = Num(1)

\* C9: get_auxiliary_data returns (None, None, None) exactly for lissajous,
\* rose and unknown kinds, and three components that are not None (fixed
\* line or circle, rolling circle, its centre) for each of the other nine
\* kinds when k # 0.
WithAuxiliary == KnownKinds \ {"lissajous", "rose"}

C9_AuxNoneTriple ==
    res_aux # NoResult
    => /\ curve_type \notin WithAuxiliary
            => res_aux = Aux(NoneV, NoneV, NoneV)
       /\ (curve_type \in WithAuxiliary /\ k_val # 0)
            => /\ res_aux.tag = "ok"
               /\ res_aux.fixed.shape \in {"line", "circle"}
               /\ res_aux.roll.shape = "circle"
               /\ res_aux.center.shape = "point"

C9_Witness ==
    /\ res_aux # NoResult
    /\ curve_type = "astroid"
    /\ k_val = 2
    /\ res_aux.tag = "ok"
    /\ res_aux.fixed.shape = "circle"

C11_ThousandUniformSamples ==
    res_stats # NoResult
    => /\ res_stats.tag = "ok"
       /\ Len(res_stats.t_vals) = 1000
       /\ \A i \in 0 .. 999 : res_stats.t_vals[i + 1] = Rat(i, 999)
       /\ res_stats.t_vals[1] = RatInt(0)
       /\ res_stats.t_vals[1000] = RatInt(1)
       /\ DOMAIN res_stats.pts = 1 .. 1000
       /\ res_stats.pts[1] = get_point(curve_type, AngZero, radius, k_val, d_val)
       /\ res_stats.pts[1000] =
             get_point(curve_type, res_stats.max_t, radius, k_val, d_val)
       /\ \A i \in 2 .. 999 : res_stats.pts[i].at = res_stats.t_vals[i]
       /\ Cardinality(res_stats.length.sum_sqrt_over) = 999
       /\ \A i \in 1 .. 999 : <<i, i + 1>> \in res_stats.length.sum_sqrt_over

C11_Witness ==
    /\ res_stats # NoResult
    /\ curve_type = "hypotrochoid"
    /\ k_val = 3
    /\ res_stats.max_t = PiAng(6)
    /\ Len(res_stats.t_vals) = 1000

\* the edges of the polygon through samples 1..n in order, the last one
\* leading from sample n back to sample 1
ClosedPolygonEdges(n) == {<<i, (i % n) + 1>> : i \in 1 .. n}

\* C12: the area of calculate_stats is the absolute value of the shoelace
\* area of the polygon through the 1000 samples in order, closed by the edge
\* from the last sample back to the first, for every kind, open curves such
\* as the trochoid with d # r included: the cross products the code sums are
\* edges of that polygon, and those it leaves out are zero.
C12_AreaIsClosedShoelace ==
    (res_stats # NoResult /\ res_stats.tag = "ok")
    => LET P        == res_stats.pts
           summed   == res_stats.area.half_abs_sum_over
           edges    == ClosedPolygonEdges(Len(res_stats.t_vals))
           Cross(e) == Sub(Mul(P[e[1]].x, P[e[2]].y), Mul(P[e[2]].x, P[e[1]].y))
       IN  /\ summed \subseteq edges
           /\ \A e \in edges \ summed : Cross(e) = Zero

\* C13: the trochoid with d = r is the cycloid: for every t, r and k,
\* get_point('trochoid', t, r, k, r) is get_point('cycloid', t, r, k, d')
\* for any d'.
C13_TrochoidRimIsCycloid ==
    (res_point # NoResult /\ curve_type = "trochoid" /\ d_val = radius)
    => \A d2 \in DInputs :
          res_point = get_point("cycloid", t_current, radius, k_val, d2)

C13_Witness ==
    /\ res_point # NoResult
    /\ curve_type = "trochoid"
    /\ d_val = radius
    /\ t_current = Ang(1, 0)
    /\ res_point = cycloid_point(Ang(1, 0), radius)

\* C14: for every t, r and d the epicycloid with k = 1 is the cardioid and
\* the epicycloid with k = 2 is the nephroid, whatever k' the special case
\* is called with.
C14_EpicycloidSpecialCases ==
    (res_point # NoResult /\ curve_type = "epicycloid" /\ k_val \in {1, 2})
    => \A k2 \in CallK :
          res_point = get_point(IF k_val = 1 THEN "cardioid" ELSE "nephroid",
                                t_current, radius, k2, d_val)

C14_Witness ==
    /\ res_point # NoResult
    /\ curve_type = "epicycloid"
    /\ k_val = 2
    /\ t_current = Ang(1, 0)
    /\ res_point = nephroid_point(Ang(1, 0), radius)

\* C15: the hypocycloid with k = 4 is the astroid: for every t, r and d,
\* get_point('hypocycloid', t, r, 4, d) is get_point('astroid', t, r, k', d),
\* that is (r*cos^3 t, r*sin^3 t).
C15_HypocycloidFourIsAstroid ==
    (res_point # NoResult /\ curve_type = "hypocycloid" /\ k_val = 4)
    => /\ \A k2 \in CallK :
             res_point = get_point("astroid", t_current, radius, k2, d_val)
       /\ res_point = Pt(Scale(RatInt(radius), Pow3(Cos(t_current))),
                         Scale(RatInt(radius), Pow3(Sin(t_current))))

C15_Witness ==
    /\ res_point # NoResult
    /\ curve_type = "hypocycloid"
    /\ k_val = 4
    /\ t_current = Ang(1, 0)
    /\ res_point.tag = "ok"

\* the kinds whose K is not used or is fixed
FixedK == {"cycloid", "trochoid", "cardioid", "nephroid", "astroid"}

\* C16: for cycloid, trochoid, cardioid, nephroid and astroid the results of
\* get_point, get_auxiliary_data and get_max_t are the same for every two
\* values of k, all other arguments being equal.
C16_KIgnoredByFixedKinds ==
    curve_type \in FixedK
    => \A k2 \in CallK :
          /\ res_point # NoResult
                => res_point = get_point(curve_type, t_current, radius, k2, d_val)
          /\ res_aux # NoResult
                => res_aux = get_auxiliary_data(curve_type, t_current, radius,
                                                k2, d_val)
          /\ res_max_t # NoResult
                => res_max_t.val = get_max_t(curve_type, k2)

C16_Witness ==
    /\ curve_type = "cardioid"
    /\ k_val = 0
    /\ t_current = Ang(1, 0)
    /\ res_point # NoResult
    /\ res_aux # NoResult
    /\ res_aux.tag = "ok"
    /\ res_max_t # NoResult

\* the kinds whose d is not used or is fixed
FixedD == {"cycloid", "cardioid", "nephroid", "astroid", "epicycloid",
           "hypocycloid", "rose"}

\* C17: for cycloid, cardioid, nephroid, astroid, epicycloid, hypocycloid
\* and rose get_point(kind, t, r, k, d) is the same for every two values of
\* d, all other arguments being equal.
C17_DIgnoredByFixedKinds ==
    (res_point # NoResult /\ curve_type \in FixedD)
    => \A d2 \in DInputs :
          res_point = get_point(curve_type, t_current, radius, k_val, d2)

C17_Witness ==
    /\ res_point # NoResult
    /\ curve_type = "cycloid"
    /\ d_val = SliderDMin
    /\ t_current = Ang(1, 0)
    /\ res_point.tag = "ok"

\* C21: in every reachable state of the viewer
\* 0 <= t_current <= get_max_t(curve_type, k_val), whatever play/pause,
\* reset, ticks, curve changes and slider changes came before, lowering the
\* K slider of an epi/hypo curve beyond whose new range t_current already is
\* included.
C21_TWithinRange ==
    /\ ~AngGt(AngZero, t_current)
    /\ ~AngGt(t_current, get_max_t(curve_type, k_val))

\* C22: in every reachable state after construction radius is in 10..100,
\* k_val in 1..10, d_val in 10..150 and speed in 1..20; so r > 0 and k # 0,
\* and what update_plot computes never takes the k = 0 branch and never
\* divides by zero in get_auxiliary_data.
C22_SliderRanges ==
    /\ radius \in 10 .. 100
    /\ k_val \in 1 .. 10
    /\ d_val \in 10 .. 150
    /\ speed \in 1 .. 20
    /\ radius > 0 /\ plot.r > 0
    /\ k_val # 0 /\ plot.k # 0
    /\ aux_r_small(plot.kind, plot.r, plot.k) # Raise
    /\ aux_fixed_shape(plot.kind, plot.r, plot.k) # "ZeroDivisionError"

C22_Witness ==
    /\ k_val = SliderKMin
    /\ plot.k = SliderKMin
    /\ curve_type = "hypotrochoid"
    /\ plot.kind = "hypotrochoid"
    /\ plot.aux_visible
    /\ is_playing

\* C23: from any state in which is_playing is true, if the timer keeps
\* ticking and the user does nothing, a state with is_playing = false and
\* t_current = get_max_t(curve_type, k_val) is eventually reached.
C23_AnimationStops ==
    is_playing ~> (~is_playing /\ t_current = get_max_t(curve_type, k_val))

C23_Witness ==
    /\ ~is_playing
    /\ ~timer_active
    /\ curve_type = "epicycloid"
    /\ speed = SliderSpeedMax
    /\ t_current = get_max_t("epicycloid", k_val)
    /\ plot.t = t_current

\* C24: in every reachable state after construction the timer is active
\* iff is_playing, and the play button shows the pause label iff is_playing.
C24_TimerIffPlaying ==
    /\ timer_active <=> is_playing
    /\ (btn_play = "pause") <=> is_playing
    /\ btn_play \in {"play", "pause"}

C24_Witness ==
    /\ is_playing
    /\ timer_active
    /\ btn_play = "pause"
    /\ AngGt(t_current, PiAng(1))
    /\ curve_type = "nephroid"

\* C25: the animation never starts over by itself: a tick taken at
\* t_current = max_t (Play pressed after the stop, without Reset) leaves
\* t_current at max_t and sets is_playing to false, and t_current returns to
\* 0 only through reset or on_curve_change.
C25_NoLoop ==
    /\ [][(t_current = get_max_t(curve_type, k_val) /\ update_animation)
            => (t_current' = t_current /\ ~is_playing' /\ ~timer_active')]_vars
    /\ [][(t_current # AngZero /\ t_current' = AngZero)
            => (reset \/ \E index \in 0 .. 10 : on_curve_change(index))]_vars

C25_Witness ==
    /\ is_playing
    /\ timer_active
    /\ t_current = get_max_t(curve_type, k_val)
    /\ plot.t = t_current
    /\ curve_type = "rose"

\* C26: reset, from any state, ends with is_playing = false, the timer
\* stopped and t_current = 0, and leaves curve_type, radius, k_val, d_val,
\* speed and show_aux unchanged.
C26_ResetFrame ==
    [][reset =>
         /\ ~is_playing'
         /\ ~timer_active'
         /\ t_current' = AngZero
         /\ UNCHANGED <<curve_type, radius, k_val, d_val, speed, show_aux>>]_vars

C26_Witness ==
    /\ ~is_playing
    /\ ~timer_active
    /\ t_current = AngZero
    /\ plot.t = AngZero
    /\ speed = SliderSpeedMax
    /\ curve_type = "cycloid"

\* C27: on_curve_change(index), for every index 0..10 and from any state,
\* sets curve_type to the index-th of the eleven known kinds, the one the
\* chosen entry names, stops the animation, rewinds t_current to 0 and
\* leaves radius, k_val, d_val, speed and show_aux unchanged.
C27_CurveChange ==
    [][\A index \in 0 .. 10 :
          on_curve_change(index) =>
             /\ curve_type' = ComboItems[index + 1]
             /\ curve_type' \in KnownKinds
             /\ ~is_playing'
             /\ ~timer_active'
             /\ t_current' = AngZero
             /\ UNCHANGED <<radius, k_val, d_val, speed, show_aux>>]_vars

C27_Witness ==
    /\ curve_type = "lissajous"
    /\ plot.kind = "lissajous"
    /\ ~is_playing
    /\ t_current = AngZero
    /\ d_val = SliderDMin

\* C28: whenever is_playing is false after a handler completes, what is
\* displayed (trajectory, point, overlay, length and area) was computed from
\* the current curve_type, radius, k_val, d_val, show_aux and t_current.
C28_PausedDisplayCurrent ==
    ~is_playing
    => plot = update_plot(curve_type, radius, k_val, d_val, show_aux, t_current)

\* C29: the length and area shown do not depend on the animation position:
\* for fixed curve_type, radius, k_val and d_val update_plot shows the same
\* length and area for every t_current, calculate_stats being run over the
\* whole range [0, get_max_t(curve_type, k_val)].
C29_StatsIgnoreT ==
    /\ \A t2 \in {AngZero, Ang(0, InitSpeed), PartWay, get_max_t(plot.kind, plot.k)} :
          update_plot(plot.kind, plot.r, plot.k, plot.d, show_aux, t2).max_t_for_calc
             = plot.max_t_for_calc
    /\ plot.max_t_for_calc = get_max_t(plot.kind, plot.k)

C29_Witness ==
    /\ is_playing
    /\ plot.kind = "epitrochoid"
    /\ plot.t = Ang(0, 2 * RadDen)
    /\ plot.max_t_for_calc = PiAng(6)

=============================================================================
